---- MODULE Spec2Model ----
(***************************************************************************)
(* Model of client.py: the MQTT weather-station client.                    *)
(*                                                                         *)
(* UserData holds the per-topic reading store, the windowed plot series,   *)
(* the connection flags and one lock.  The callbacks on_message,           *)
(* on_connect and on_disconnect are delivered by the transport: inline in  *)
(* client.loop() by the main thread when plotting (active mode), by the    *)
(* transport's delivery contexts after loop_start() otherwise (passive     *)
(* mode).  The log file is a sequence of lines, each line the list of its  *)
(* comma separated fields, the last field carrying the line terminator.    *)
(***************************************************************************)
EXTENDS Integers, Sequences, FiniteSets, TLC

VARIABLES
    plot,             \* self.plot
    max_plot,         \* self.max_plot
    readings,         \* self.readings: topic -> list of raw values
    default_plot,     \* self.default_plot: topic -> [x, y]
    plots,            \* self.plots
    _connected,       \* self._connected
    _last_connected,  \* self._last_connected
    lock,             \* self.lock: "free" or the thread holding it
    fileExists,       \* os.path.exists(filename)
    file,             \* the lines of the log file
    pc,               \* position of every thread
    cur,              \* locals of the call a thread is in
    loadIdx,          \* enumerate() index of the history loader, 1-based
    clock,            \* number of datetime.now() calls so far
    connectCalls,     \* client.connect calls issued
    subscribed,       \* topics passed to client.subscribe
    errLog,           \* exceptions on_message caught and printed
    procAlive,        \* the process has not terminated
    nEvents,          \* callbacks delivered so far
    faults,           \* file I/O errors injected so far
    entered,          \* history: per topic, values in lock-acquisition order
    calls,            \* history: per topic, add_reading calls issued
    overlap,          \* history: two add_reading calls were in progress at once
    file0,            \* history: the log as found at startup
    exists0,          \* history: whether the log existed at startup
    session,          \* history: "none", "acked" (successful ack handled),
                      \*   "dropped" (disconnect handled after that ack)
    connectAtDrop,    \* history: connectCalls when the session dropped
    checked           \* history: a reconnect check completed since the drop

vars == <<plot, max_plot, readings, default_plot, plots, _connected,
          _last_connected, lock, fileExists, file, pc, cur, loadIdx, clock,
          connectCalls, subscribed, errLog, procAlive, nEvents,
          faults, entered, calls, overlap, file0, exists0, session, connectAtDrop,
          checked>>

\* groups of variables, for the UNCHANGED clauses
configVars == <<plot, max_plot, file0, exists0>>
plotVars == <<default_plot, plots, loadIdx>>
connVars == <<_connected, _last_connected, connectCalls, subscribed>>
connHist == <<session, connectAtDrop, checked>>
fileVars == <<fileExists, file>>
storeHist == <<entered, calls, overlap>>
budgets == <<nEvents, faults>>

----------------------------------------------------------------------------
(* Bounds of the model *)
MaxEvents == 3
MaxN == 2
MaxFaults == 1

(* Threads: the foreground thread and the transport's delivery contexts *)
Main == "main"
Ctx == {"c1", "c2"}
Threads == {Main} \cup Ctx

(* Configuration *)
Topics == {"a", "b"}
Unconfigured == "u"
AllTopics == Topics \cup {Unconfigured}

(* Payloads: a byte string that is not valid UTF-8, and two texts *)
BadBytes == "<ff>"
Payloads == {"21.5", "nan", BadBytes}
ResultCodes == {0, 5}

None == "None"
Free == "free"
\* locals of a thread: the callback it runs, the call's arguments (rc of
\* on_connect; topic and data of add_reading), write_last_reading's locals
\* and the exception that is leaving the callback
NoCall == [cb |-> None, rc |-> 0, topic |-> "", data |-> "",
           write_headers |-> FALSE, line |-> <<>>, exc |-> None]

\* the positions inside add_reading
InAddReading == {"ar_lock", "ar_append", "ar_plot", "wr_prep", "wr_open",
                 "wr_write"}

----------------------------------------------------------------------------
(* Text conversions *)

\* bytes.decode("utf-8") succeeds
Utf8Ok(payload) == payload # BadBytes

\* texts float() accepts, surrounding whitespace ignored
FloatTexts == <<"21.5", "22.0", "22.4", "23.1", "nan">>

FloatOk(s) == \E i \in 1..Len(FloatTexts) :
                 s = FloatTexts[i] \/ s = FloatTexts[i] \o "\n"

\* float(s): the number, named by its canonical text
Float(s) == FloatTexts[CHOOSE i \in 1..Len(FloatTexts) :
                 s = FloatTexts[i] \/ s = FloatTexts[i] \o "\n"]

\* str(datetime.now()) at the n-th call
Stamp(n) == "t" \o ToString(n)

Header == <<"date", "topic", "data">>

\* what writelines([s, "\n"]) leaves in the file, as line.split(',') reads it
AsLine(fields) ==
    [i \in 1..Len(fields) |->
        IF i = Len(fields) THEN fields[i] \o "\n" ELSE fields[i]]

\* "{},{},{}".format(datetime.now(), topic, value)
FormatLine(n, topic, value) == <<Stamp(n), topic, value>>

\* seq[-n:]
LastN(seq, n) ==
    IF n = 0 \/ n >= Len(seq) THEN seq
    ELSE SubSeq(seq, Len(seq) - n + 1, Len(seq))

Min(a, b) == IF a < b THEN a ELSE b

----------------------------------------------------------------------------
(* Logs that may be on disk at startup *)

\* a log in the three-column schema this program writes
ThreeColumnLog ==
    <<AsLine(Header), AsLine(<<"o1", "a", "21.5">>),
      AsLine(<<"o2", "b", "22.0">>)>>

\* a wide log, one column per topic, with more rows than any window
WideLog ==
    <<AsLine(<<"date", "a", "b">>)>> \o
    [i \in 1..(MaxN + 2) |->
        AsLine(<<"o" \o ToString(i), FloatTexts[((i - 1) % 4) + 1], "22.0">>)]

\* a wide log whose third row holds a value float() rejects
BadWideLog ==
    <<AsLine(<<"date", "a", "b">>), AsLine(<<"o1", "21.5", "22.0">>),
      AsLine(<<"o2", "nan", "22.0">>), AsLine(<<"o3", "x", "22.0">>),
      AsLine(<<"o4", "22.4", "22.0">>)>>

InitLogs == {ThreeColumnLog, WideLog, BadWideLog}

----------------------------------------------------------------------------
(* UserData.__init__ *)

\* a store that has a key for whatever topic arrives
InitReadingsAnyTopic == [t \in AllTopics |-> <<>>]

\* "self.readings = {topic: [] for topic in topics}"
InitReadings == [t \in Topics |-> <<>>]

InitDefaultPlot == [t \in Topics |-> [x |-> <<>>, y |-> <<>>]]

\* The window size and the log's rows are read only when plotting: without
\* plotting one window size and one log stand for all of them.
Init ==
    /\ plot \in BOOLEAN
    /\ max_plot \in (IF plot THEN 0..MaxN ELSE {MaxN})
    /\ \/ exists0 = FALSE /\ file0 = <<>>
       \/ exists0 = TRUE /\ file0 \in (IF plot THEN InitLogs
                                               ELSE {ThreeColumnLog})
    /\ fileExists = exists0
    /\ file = file0
    /\ readings = InitReadings
    /\ default_plot = InitDefaultPlot
    /\ plots = None
    /\ _connected = FALSE
    /\ _last_connected = FALSE
    /\ lock = Free
    /\ pc = [t \in Threads |->
                IF t = Main
                THEN (IF exists0 /\ plot /\ Len(file0) > 0
                      THEN "load" ELSE "start")
                ELSE "off"]
    /\ cur = [t \in Threads |-> NoCall]
    /\ loadIdx = 1
    /\ clock = 0
    /\ connectCalls = 0
    /\ subscribed = {}
    /\ errLog = {}
    /\ procAlive = TRUE
    /\ nEvents = 0
    /\ faults = 0
    /\ entered = [t \in Topics |-> <<>>]
    /\ calls = [t \in AllTopics |-> 0]
    /\ overlap = FALSE
    /\ session = "none"
    /\ connectAtDrop = 0
    /\ checked = FALSE

\* the body of "for topic, val in zip(header[1:], data[1:])" from pair k on:
\* the series after the row, and whether float(val) raised ValueError
RECURSIVE LoadPairs(_, _, _, _)
LoadPairs(header, data, k, dp) ==
    IF k > Min(Len(header), Len(data))
    THEN [dp |-> dp, raised |-> FALSE]
    ELSE IF header[k] \notin Topics
    THEN LoadPairs(header, data, k + 1, dp)
    ELSE LET topic == header[k]
             x1 == Append(dp[topic].x, data[1])
         IN IF ~FloatOk(data[k])
            THEN [dp |-> [dp EXCEPT ![topic].x = x1], raised |-> TRUE]
            ELSE LET y1 == Append(dp[topic].y, Float(data[k]))
                 IN LoadPairs(header, data, k + 1,
                        [dp EXCEPT ![topic] =
                            [x |-> LastN(x1, max_plot),
                             y |-> LastN(y1, max_plot)]])

\* one iteration of "for i, line in enumerate(f.readlines())"; a ValueError
\* leaves __init__ and main, and ends the process
LoadLine ==
    /\ procAlive
    /\ pc[Main] = "load"
    /\ loadIdx <= Len(file)
    /\ LET r == IF loadIdx = 1
                THEN [dp |-> default_plot, raised |-> FALSE]
                ELSE LoadPairs(file[1], file[loadIdx], 2, default_plot)
       IN /\ default_plot' = r.dp
          /\ IF r.raised
             THEN /\ pc' = [pc EXCEPT ![Main] = "crashed"]
                  /\ cur' = [cur EXCEPT ![Main].exc = "ValueError"]
                  /\ procAlive' = FALSE
             ELSE /\ pc' = [pc EXCEPT ![Main] =
                              IF loadIdx = Len(file) THEN "start" ELSE "load"]
                  /\ UNCHANGED <<cur, procAlive>>
    /\ loadIdx' = loadIdx + 1
    /\ UNCHANGED <<configVars, readings, plots, connVars, connHist, lock,
                   fileVars, clock, errLog, storeHist, budgets>>

\* main: connect, install the callbacks, start the delivery loop
Start ==
    /\ procAlive
    /\ pc[Main] = "start"
    /\ connectCalls' = connectCalls + 1
    /\ pc' = [t \in Threads |->
                IF t = Main THEN (IF plot THEN "loop" ELSE "wait")
                ELSE (IF plot THEN "off" ELSE "idle")]
    /\ UNCHANGED <<configVars, readings, plotVars, _connected,
                   _last_connected, subscribed, connHist, lock, fileVars, cur,
                   clock, errLog, procAlive, storeHist, budgets>>

----------------------------------------------------------------------------
(* The lock, the properties of UserData, exceptions *)

\* a lock that never makes a caller wait
LockIgnored == TRUE

\* "with self.lock" can be entered
LockFree == lock = Free

\* The getter of the class attribute "connected".  "@last_connected.setter
\* def connected" rebinds the name "connected" to a property made of
\* last_connected's getter and the new setter, so it reads _last_connected.
Get_connected == _last_connected

\* The getter of the class attribute "last_connected"
Get_last_connected == _last_connected

\* Whether the class attribute "last_connected" has a setter: the setter
\* made from it was bound to the name "connected"
LastConnectedSettable == FALSE

\* an except clause for ValueError alone
CatchesValueErrorOnly(exc) == exc = "ValueError"

\* the exception classes "except Exception" in on_message catches
Catches(exc) ==
    exc \in {"AttributeError", "NameError", "IOError", "ValueError",
             "UnicodeDecodeError"}

\* where a thread continues when its callback returns
Ret(t) == IF t = Main THEN "check" ELSE "idle"

\* the transport may deliver a callback on thread t: main inside
\* client.loop(), a delivery context until loop_stop() is called
Deliverable(t) ==
    /\ procAlive
    /\ IF t = Main THEN pc[t] = "loop"
       ELSE pc[t] = "idle" /\ pc[Main] = "wait"

\* the topic is a key of the store
Configured(topic) == topic \in DOMAIN readings

\* a lock that stays with its holder when the holder raises
LockKeptOnRaise == lock

\* the lock after an exception has left a "with self.lock" block
LockOnRaise == Free

\* an exception raised inside add_reading's "with self.lock" block: the
\* lock is released, on_message catches and prints it, or it leaves on_message
RaiseInAddReading(t, exc) ==
    /\ lock' = LockOnRaise
    /\ IF Catches(exc)
       THEN /\ errLog' = errLog \cup
                   {[exc |-> exc, topic |-> cur[t].topic, data |-> cur[t].data]}
            /\ cur' = [cur EXCEPT ![t] = NoCall]
            /\ pc' = [pc EXCEPT ![t] = Ret(t)]
       ELSE /\ cur' = [cur EXCEPT ![t] =
                         [NoCall EXCEPT !.cb = cur[t].cb, !.exc = exc]]
            /\ pc' = [pc EXCEPT ![t] = "raised"]
            /\ UNCHANGED errLog

----------------------------------------------------------------------------
(* on_message and UserData.add_reading *)

\* on_message: decode the payload, call add_reading
OnMessage(t, topic, payload) ==
    /\ Deliverable(t)
    /\ nEvents < MaxEvents
    /\ nEvents' = nEvents + 1
    /\ IF Utf8Ok(payload)
       THEN /\ cur' = [cur EXCEPT ![t] =
                         [NoCall EXCEPT !.cb = "on_message", !.topic = topic,
                                        !.data = payload]]
            /\ calls' = [calls EXCEPT ![topic] = @ + 1]
            /\ overlap' = (overlap \/ \E u \in Threads : pc[u] \in InAddReading)
            /\ pc' = [pc EXCEPT ![t] = "ar_lock"]
       ELSE /\ cur' = [cur EXCEPT ![t] =
                         [NoCall EXCEPT !.cb = "on_message",
                                        !.exc = "UnicodeDecodeError"]]
            /\ pc' = [pc EXCEPT ![t] = "raised"]
            /\ UNCHANGED <<calls, overlap>>
    /\ UNCHANGED <<configVars, readings, plotVars, connVars, connHist, lock,
                   fileVars, clock, errLog, procAlive, entered, faults>>

\* add_reading: "with self.lock"
AddReadingLock(t) ==
    /\ procAlive
    /\ pc[t] = "ar_lock"
    /\ LockFree
    /\ lock' = t
    /\ entered' = IF cur[t].topic \in Topics
                  THEN [entered EXCEPT ![cur[t].topic] = Append(@, cur[t].data)]
                  ELSE entered
    /\ pc' = [pc EXCEPT ![t] = "ar_append"]
    /\ UNCHANGED <<configVars, readings, plotVars, connVars, connHist,
                   fileVars, cur, clock, errLog, procAlive, calls, overlap,
                   budgets>>

\* a store that keeps the latest value alone
Replaced(seq, data) == <<data>>

\* "self.readings[topic] += [data]"
Appended(seq, data) == Append(seq, data)

\* add_reading: return for a topic that is no key, else append the value
AddReadingAppend(t) ==
    /\ procAlive
    /\ pc[t] = "ar_append"
    /\ IF ~Configured(cur[t].topic)
       THEN /\ lock' = Free
            /\ cur' = [cur EXCEPT ![t] = NoCall]
            /\ pc' = [pc EXCEPT ![t] = Ret(t)]
            /\ UNCHANGED readings
       ELSE /\ readings' = [readings EXCEPT ![cur[t].topic] =
                               Appended(@, cur[t].data)]
            /\ pc' = [pc EXCEPT ![t] = IF plot THEN "ar_plot" ELSE "wr_prep"]
            /\ UNCHANGED <<lock, cur>>
    /\ UNCHANGED <<configVars, plotVars, connVars, connHist, fileVars, clock,
                   errLog, procAlive, storeHist, budgets>>

\* plot_reading(topic, data): "ok" when it returns, else the exception.
\* self.plots is None, so building it reads self.stations, which no
\* UserData has; past that, line 117 reads the undefined name "station".
PlotReading(data) ==
    IF data = "nan" THEN "ok"
    ELSE IF plots = None THEN "AttributeError"
    ELSE "NameError"

\* add_reading: "if self.plot: self.plot_reading(topic, data)"
AddReadingPlot(t) ==
    /\ procAlive
    /\ pc[t] = "ar_plot"
    /\ IF PlotReading(cur[t].data) = "ok"
       THEN /\ pc' = [pc EXCEPT ![t] = "wr_prep"]
            /\ UNCHANGED <<lock, cur, errLog>>
       ELSE RaiseInAddReading(t, PlotReading(cur[t].data))
    /\ UNCHANGED <<configVars, readings, plotVars, connVars, connHist,
                   fileVars, clock, procAlive, storeHist, budgets>>

----------------------------------------------------------------------------
(* UserData.write_last_reading, called with the lock held *)

\* the lines one call hands to f.writelines
LinesToWrite(c) ==
    (IF c.write_headers THEN <<AsLine(Header)>> ELSE <<>>) \o <<AsLine(c.line)>>

\* a header with every record
WriteHeadersAlways == TRUE

\* "write_headers = not os.path.exists(self.filename)"
WriteHeaders == ~fileExists

\* format the topic's last stored value, test whether the file exists
WritePrepare(t) ==
    /\ procAlive
    /\ pc[t] = "wr_prep"
    /\ LET seq == readings[cur[t].topic]
       IN cur' = [cur EXCEPT ![t].line =
                         FormatLine(clock, cur[t].topic, seq[Len(seq)]),
                     ![t].write_headers = WriteHeaders]
    /\ clock' = clock + 1
    /\ pc' = [pc EXCEPT ![t] = "wr_open"]
    /\ UNCHANGED <<configVars, readings, plotVars, connVars, connHist, lock,
                   fileVars, errLog, procAlive, storeHist, budgets>>

\* open(self.filename, "a"): creates the file when it is absent
WriteOpen(t) ==
    /\ procAlive
    /\ pc[t] = "wr_open"
    /\ fileExists' = TRUE
    /\ pc' = [pc EXCEPT ![t] = "wr_write"]
    /\ UNCHANGED <<configVars, readings, plotVars, connVars, connHist, lock,
                   file, cur, clock, errLog, procAlive, storeHist, budgets>>

\* open raises IOError: nothing is created
WriteOpenFail(t) ==
    /\ procAlive
    /\ pc[t] = "wr_open"
    /\ faults < MaxFaults
    /\ faults' = faults + 1
    /\ RaiseInAddReading(t, "IOError")
    /\ UNCHANGED <<configVars, readings, plotVars, connVars, connHist,
                   fileVars, clock, procAlive, storeHist, nEvents>>

\* the header when the file was absent, the line, and the close
WriteLines(t) ==
    /\ procAlive
    /\ pc[t] = "wr_write"
    /\ file' = file \o LinesToWrite(cur[t])
    /\ lock' = Free
    /\ cur' = [cur EXCEPT ![t] = NoCall]
    /\ pc' = [pc EXCEPT ![t] = Ret(t)]
    /\ UNCHANGED <<configVars, readings, plotVars, connVars, connHist,
                   fileExists, clock, errLog, procAlive, storeHist, budgets>>

\* writing raises IOError after k of the lines reached the file
WriteLinesFail(t) ==
    /\ procAlive
    /\ pc[t] = "wr_write"
    /\ faults < MaxFaults
    /\ faults' = faults + 1
    /\ \E k \in 0..(Len(LinesToWrite(cur[t])) - 1) :
          file' = file \o SubSeq(LinesToWrite(cur[t]), 1, k)
    /\ RaiseInAddReading(t, "IOError")
    /\ UNCHANGED <<configVars, readings, plotVars, connVars, connHist,
                   fileExists, clock, procAlive, storeHist, nEvents>>

----------------------------------------------------------------------------
(* on_connect and on_disconnect *)

\* a handler that starts the store afresh
StoreCleared == readings' = InitReadings /\ UNCHANGED plotVars

\* the flag assignments of on_connect and on_disconnect touch neither the
\* store nor the windowed series
StoreKept == UNCHANGED <<readings, plotVars>>

\* a test that takes every result code for success
AckAny(rc) == TRUE

\* "if rc == 0": the broker accepted the connection
AckOk(rc) == rc = 0

\* on_connect: print; for rc == 0 subscribe to every topic
OnConnect(t, rc) ==
    /\ Deliverable(t)
    /\ nEvents < MaxEvents
    /\ nEvents' = nEvents + 1
    /\ cur' = [cur EXCEPT ![t] =
                  [NoCall EXCEPT !.cb = "on_connect", !.rc = rc]]
    /\ IF AckOk(rc)
       THEN /\ subscribed' = subscribed \cup Topics
            /\ pc' = [pc EXCEPT ![t] = "oc_connected"]
       ELSE /\ pc' = [pc EXCEPT ![t] = "oc_return"]
            /\ UNCHANGED subscribed
    /\ UNCHANGED <<configVars, readings, plotVars, _connected,
                   _last_connected, connectCalls, connHist, lock, fileVars,
                   clock, errLog, procAlive, storeHist, faults>>

\* on_connect returns, the body of "if rc == 0" skipped
OnConnectReturn(t) ==
    /\ procAlive
    /\ pc[t] = "oc_return"
    /\ cur' = [cur EXCEPT ![t] = NoCall]
    /\ pc' = [pc EXCEPT ![t] = Ret(t)]
    /\ UNCHANGED <<configVars, readings, plotVars, connVars, connHist, lock,
                   fileVars, clock, errLog, procAlive, storeHist, budgets>>

\* "userdata.connected = True": the setter stores into _last_connected
OnConnectSetConnected(t) ==
    /\ procAlive
    /\ pc[t] = "oc_connected"
    /\ LockFree
    /\ _last_connected' = TRUE
    /\ session' = "acked"
    /\ pc' = [pc EXCEPT ![t] = "oc_last"]
    /\ StoreKept
    /\ UNCHANGED <<configVars, _connected, connectCalls,
                   subscribed, connectAtDrop, checked, lock, fileVars, cur,
                   clock, errLog, procAlive, storeHist, budgets>>

\* "userdata.last_connected = True": the property has no setter
OnConnectSetLast(t) ==
    /\ procAlive
    /\ pc[t] = "oc_last"
    /\ IF LastConnectedSettable
       THEN /\ LockFree
            /\ _last_connected' = TRUE
            /\ cur' = [cur EXCEPT ![t] = NoCall]
            /\ pc' = [pc EXCEPT ![t] = Ret(t)]
       ELSE /\ cur' = [cur EXCEPT ![t].exc = "AttributeError"]
            /\ pc' = [pc EXCEPT ![t] = "raised"]
            /\ UNCHANGED _last_connected
    /\ UNCHANGED <<configVars, readings, plotVars, _connected, connectCalls,
                   subscribed, connHist, lock, fileVars, clock, errLog,
                   procAlive, storeHist, budgets>>

\* on_disconnect: print the code
OnDisconnect(t, rc) ==
    /\ Deliverable(t)
    /\ nEvents < MaxEvents
    /\ nEvents' = nEvents + 1
    /\ cur' = [cur EXCEPT ![t] = [NoCall EXCEPT !.cb = "on_disconnect"]]
    /\ pc' = [pc EXCEPT ![t] = "od_connected"]
    /\ UNCHANGED <<configVars, readings, plotVars, connVars, connHist, lock,
                   fileVars, clock, errLog, procAlive, storeHist, faults>>

\* "userdata.connected = False": the setter stores into _last_connected
OnDisconnectSetConnected(t) ==
    /\ procAlive
    /\ pc[t] = "od_connected"
    /\ LockFree
    /\ _last_connected' = FALSE
    /\ IF session = "acked"
       THEN /\ session' = "dropped"
            /\ connectAtDrop' = connectCalls
            /\ checked' = FALSE
       ELSE UNCHANGED connHist
    /\ cur' = [cur EXCEPT ![t] = NoCall]
    /\ pc' = [pc EXCEPT ![t] = Ret(t)]
    /\ StoreKept
    /\ UNCHANGED <<configVars, _connected, connectCalls,
                   subscribed, lock, fileVars, clock, errLog, procAlive,
                   storeHist, budgets>>

----------------------------------------------------------------------------
(* An exception that left a callback reaches the transport.  The transport *)
(* is no part of this repository: it either lets the exception end the     *)
(* loop that delivered the callback, or logs it and goes on delivering.    *)

CallbackRaisedPropagate(t) ==
    /\ procAlive
    /\ pc[t] = "raised"
    /\ pc' = [pc EXCEPT ![t] = IF t = Main THEN "crashed" ELSE "dead"]
    /\ procAlive' = (t # Main)
    /\ UNCHANGED <<configVars, readings, plotVars, connVars, connHist, lock,
                   fileVars, cur, clock, errLog, storeHist, budgets>>

CallbackRaisedSuppress(t) ==
    /\ procAlive
    /\ pc[t] = "raised"
    /\ cur' = [cur EXCEPT ![t] = NoCall]
    /\ pc' = [pc EXCEPT ![t] = Ret(t)]
    /\ UNCHANGED <<configVars, readings, plotVars, connVars, connHist, lock,
                   fileVars, clock, errLog, procAlive, storeHist, budgets>>

----------------------------------------------------------------------------
(* main: the poll loop of active mode *)

\* client.loop() returns without having delivered a callback
LoopNoEvent ==
    /\ procAlive
    /\ pc[Main] = "loop"
    /\ pc' = [pc EXCEPT ![Main] = "check"]
    /\ UNCHANGED <<configVars, readings, plotVars, connVars, connHist, lock,
                   fileVars, cur, clock, errLog, procAlive, storeHist, budgets>>

\* "if not userdata.connected": the first operand of the reconnect check
CheckConnected ==
    /\ procAlive
    /\ pc[Main] = "check"
    /\ LockFree
    /\ IF ~Get_connected
       THEN /\ pc' = [pc EXCEPT ![Main] = "check_last"]
            /\ UNCHANGED checked
       ELSE /\ pc' = [pc EXCEPT ![Main] = "loop"]
            /\ checked' = (checked \/ session = "dropped")
    /\ UNCHANGED <<configVars, readings, plotVars, connVars, session,
                   connectAtDrop, lock, fileVars, cur, clock, errLog,
                   procAlive, storeHist, budgets>>

\* "and userdata.last_connected", then the reset and client.connect
CheckLastConnected ==
    /\ procAlive
    /\ pc[Main] = "check_last"
    /\ LockFree
    /\ IF ~Get_last_connected
       THEN /\ pc' = [pc EXCEPT ![Main] = "loop"]
            /\ checked' = (checked \/ session = "dropped")
            /\ UNCHANGED <<_last_connected, connectCalls, cur, procAlive>>
       ELSE IF LastConnectedSettable
       THEN /\ _last_connected' = FALSE
            /\ connectCalls' = connectCalls + 1
            /\ pc' = [pc EXCEPT ![Main] = "loop"]
            /\ checked' = (checked \/ session = "dropped")
            /\ UNCHANGED <<cur, procAlive>>
       ELSE /\ cur' = [cur EXCEPT ![Main].exc = "AttributeError"]
            /\ pc' = [pc EXCEPT ![Main] = "crashed"]
            /\ procAlive' = FALSE
            /\ UNCHANGED <<_last_connected, connectCalls, checked>>
    /\ UNCHANGED <<configVars, readings, plotVars, _connected, subscribed,
                   session, connectAtDrop, lock, fileVars, clock, errLog,
                   storeHist, budgets>>

----------------------------------------------------------------------------
(* main: passive mode *)

\* raw_input returns and loop_stop() asks the delivery loop to end
StopInput ==
    /\ procAlive
    /\ pc[Main] = "wait"
    /\ pc' = [pc EXCEPT ![Main] = "stopping"]
    /\ UNCHANGED <<configVars, readings, plotVars, connVars, connHist, lock,
                   fileVars, cur, clock, errLog, procAlive, storeHist, budgets>>

\* raw_input raises KeyboardInterrupt: main ends, and with it the process
Interrupt ==
    /\ procAlive
    /\ pc[Main] = "wait"
    /\ cur' = [cur EXCEPT ![Main].exc = "KeyboardInterrupt"]
    /\ pc' = [pc EXCEPT ![Main] = "crashed"]
    /\ procAlive' = FALSE
    /\ UNCHANGED <<configVars, readings, plotVars, connVars, connHist, lock,
                   fileVars, clock, errLog, storeHist, budgets>>

\* loop_stop() has joined the delivery loop; main returns
LoopStop ==
    /\ procAlive
    /\ pc[Main] = "stopping"
    /\ \A c \in Ctx : pc[c] \in {"idle", "dead"}
    /\ pc' = [t \in Threads |-> IF t = Main THEN "done" ELSE "off"]
    /\ procAlive' = FALSE
    /\ UNCHANGED <<configVars, readings, plotVars, connVars, connHist, lock,
                   fileVars, cur, clock, errLog, storeHist, budgets>>

----------------------------------------------------------------------------
Next ==
    \/ LoadLine
    \/ Start
    \/ \E t \in Threads, topic \in AllTopics, payload \in Payloads :
          OnMessage(t, topic, payload)
    \/ \E t \in Threads : AddReadingLock(t)
    \/ \E t \in Threads : AddReadingAppend(t)
    \/ \E t \in Threads : AddReadingPlot(t)
    \/ \E t \in Threads : WritePrepare(t)
    \/ \E t \in Threads : WriteOpen(t)
    \/ \E t \in Threads : WriteOpenFail(t)
    \/ \E t \in Threads : WriteLines(t)
    \/ \E t \in Threads : WriteLinesFail(t)
    \/ \E t \in Threads, rc \in ResultCodes : OnConnect(t, rc)
    \/ \E t \in Threads : OnConnectReturn(t)
    \/ \E t \in Threads : OnConnectSetConnected(t)
    \/ \E t \in Threads : OnConnectSetLast(t)
    \/ \E t \in Threads, rc \in ResultCodes : OnDisconnect(t, rc)
    \/ \E t \in Threads : OnDisconnectSetConnected(t)
    \/ \E t \in Threads : CallbackRaisedPropagate(t)
    \/ \E t \in Threads : CallbackRaisedSuppress(t)
    \/ LoopNoEvent
    \/ CheckConnected
    \/ CheckLastConnected
    \/ StopInput
    \/ Interrupt
    \/ LoopStop

Spec == Init /\ [][Next]_vars

----------------------------------------------------------------------------
(* Vocabulary of the properties *)

\* no add_reading call is in progress
Quiescent == \A t \in Threads : pc[t] \notin InAddReading

RECURSIVE SumLen(_, _)
SumLen(f, S) ==
    IF S = {} THEN 0
    ELSE LET k == CHOOSE k \in S : TRUE
         IN Len(f[k]) + SumLen(f, S \ {k})

\* readings held in the store
TotalReadings == SumLen(readings, DOMAIN readings)

\* readings of the store that plot_reading lets through to persistence
RECURSIVE CountPassing(_, _)
CountPassing(f, S) ==
    IF S = {} THEN 0
    ELSE LET k == CHOOSE k \in S : TRUE
         IN Len(SelectSeq(f[k], LAMBDA d : ~plot \/ PlotReading(d) = "ok"))
            + CountPassing(f, S \ {k})

IsHeaderLine(l) == l = AsLine(Header)

\* the lines this run added to the log
Written == SubSeq(file, Len(file0) + 1, Len(file))

\* the data lines this run added to the log
DataLinesWritten == Len(SelectSeq(Written, LAMBDA l : ~IsHeaderLine(l)))

\* connect calls the poll loop issued since the session dropped
ReconnectsSinceDrop == connectCalls - connectAtDrop

----------------------------------------------------------------------------
(* C1 *)

\* C1: in active mode, once a successful connect ack has been followed by a
\* disconnect, a completed reconnect check has issued exactly one
\* client.connect call and left hadSession false; no second call is issued
\* for that drop, and none at all while no session was ever acknowledged.
C1_Claim ==
    /\ (session = "dropped" /\ checked) =>
           (ReconnectsSinceDrop = 1 /\ ~Get_last_connected)
    /\ session = "dropped" => ReconnectsSinceDrop <= 1
    /\ session = "none" => connectCalls <= 1

----------------------------------------------------------------------------
(* C2 *)

\* C2: once every add_reading call has completed, each configured topic's
\* stored sequence has as many elements as add_reading calls were issued for
\* the topic, in the order in which the calls entered the critical section.
C2_Thm ==
    Quiescent =>
        \A topic \in Topics :
            /\ Len(readings[topic]) = calls[topic]
            /\ readings[topic] = entered[topic]

\* two calls on one topic overlapped and both have completed
C2_Wit ==
    /\ Quiescent
    /\ overlap
    /\ \E topic \in Topics :
          /\ calls[topic] = 2
          /\ readings[topic][1] # readings[topic][2]

----------------------------------------------------------------------------
(* C3 *)

\* C3: whenever no add_reading call is in progress and no file I/O error has
\* occurred, the log holds one data line per reading held in the store, with
\* plotting enabled as well as disabled.
C3_Claim ==
    (Quiescent /\ faults = 0) => DataLinesWritten = TotalReadings

----------------------------------------------------------------------------
(* C4 *)

\* C4: add_reading appends, then persists, then plots, holding the lock: when
\* a call reaches the plotting step its record is already in the log.
C4_Claim ==
    \A t \in Threads :
        pc[t] = "ar_plot" =>
            /\ lock = t
            /\ cur[t].line # <<>>
            /\ \E i \in 1..Len(file) : file[i] = AsLine(cur[t].line)

----------------------------------------------------------------------------
(* C5 *)

\* C5: on_connect with rc == 0 has subscribed to every configured topic and
\* returns with connected and hadSession true; on_disconnect leaves connected
\* false and hadSession as it was.
C5_Claim ==
    [][\A t \in Threads :
          /\ (pc[t] = "oc_last" /\ pc'[t] # "oc_last") =>
                 (Topics \subseteq subscribed' /\ cur'[t].exc = None
                    /\ Get_connected' /\ Get_last_connected')
          /\ (pc[t] = "od_connected" /\ pc'[t] # "od_connected") =>
                 (~Get_connected' /\ Get_last_connected' = Get_last_connected)
      ]_vars

----------------------------------------------------------------------------
(* C6 *)

\* C6: no exception leaves on_message: a payload that is not UTF-8 and any
\* failure inside add_reading are caught and logged.
C6_Claim ==
    \A t \in Threads : ~(cur[t].cb = "on_message" /\ cur[t].exc # None)

----------------------------------------------------------------------------
(* C7 *)

\* C7: a step of an add_reading call for a topic that is not configured
\* leaves the store, the log file and every windowed series as they were and
\* raises nothing; the call returns right after the membership test.
C7_Thm ==
    [][\A t \in Threads :
          (pc[t] \in InAddReading /\ ~(cur[t].topic \in Topics)
             /\ pc'[t] # pc[t]) =>
              /\ readings' = readings
              /\ file' = file
              /\ fileExists' = fileExists
              /\ default_plot' = default_plot
              /\ errLog' = errLog
              /\ cur'[t].exc = None
              /\ pc[t] = "ar_append" => pc'[t] = Ret(t)
      ]_vars

\* a call for the unconfigured topic was issued and has returned
C7_Wit ==
    /\ calls[Unconfigured] > 0
    /\ \A t \in Threads : pc[t] \in InAddReading => cur[t].topic \in Topics
    /\ \A t \in Threads : pc[t] \notin {"raised", "dead", "crashed"}

----------------------------------------------------------------------------
(* C8 *)

\* C8: when the log did not exist at startup and no file I/O error occurred,
\* a log that holds any line holds the header as its first line and nowhere
\* else.
C8_Thm ==
    (~exists0 /\ faults = 0 /\ Len(file) > 0) =>
        /\ IsHeaderLine(file[1])
        /\ \A i \in 2..Len(file) : ~IsHeaderLine(file[i])

\* two overlapping calls both appended to a log that was absent at startup
C8_Wit ==
    /\ ~exists0
    /\ faults = 0
    /\ overlap
    /\ Quiescent
    /\ Len(file) = 3

----------------------------------------------------------------------------
(* C9 *)

\* C9: for every topic and window size the x and y series have equal length,
\* at most the window size, after every step of the running program; a full
\* window that receives an entry drops its oldest entry and keeps the order
\* of the others.
C9_Claim ==
    [][pc'[Main] # "crashed" =>
          \A topic \in Topics :
              LET w == default_plot[topic]
                  w1 == default_plot'[topic]
              IN /\ Len(w1.x) = Len(w1.y)
                 /\ Len(w1.x) <= max_plot
                 /\ (w1 # w /\ Len(w.x) = max_plot /\ max_plot > 0) =>
                        /\ SubSeq(w1.x, 1, max_plot - 1) = Tail(w.x)
                        /\ SubSeq(w1.y, 1, max_plot - 1) = Tail(w.y)
      ]_vars

----------------------------------------------------------------------------
(* C10 *)

\* C10: when opening or writing the log raises, the reading just appended
\* stays in the store, on_message catches and prints the error, and every
\* reading whose write did not fail is persisted: at rest the log holds one
\* data line per reading that reached write_last_reading, less the failed
\* writes.
C10_Thm ==
    /\ \A e \in errLog :
          e.exc = "IOError" =>
              \E i \in 1..Len(readings[e.topic]) :
                  readings[e.topic][i] = e.data
    /\ \A t \in Threads : cur[t].exc # "IOError"
    /\ faults > 0 => \E e \in errLog : e.exc = "IOError"
    /\ Quiescent =>
          DataLinesWritten = CountPassing(readings, DOMAIN readings) - faults

\* the first write failed, the reading is still stored, and the next
\* reading was persisted
C10_Wit ==
    /\ faults = 1
    /\ Quiescent
    /\ TotalReadings = 2
    /\ \E i \in 1..Len(file) : file[i][1] = Stamp(1)
    /\ \A i \in 1..Len(file) : file[i][1] # Stamp(0)

----------------------------------------------------------------------------
(* C11 *)

\* C11: only an on_connect call with rc == 0 enters the subscribing branch;
\* the steps of a call with any other rc leave connected, hadSession, the
\* subscriptions and the number of client.connect calls as they were, and
\* the call returns without raising.
C11_Thm ==
    [][\A t \in Threads :
          /\ (cur'[t].cb = "on_connect" /\ cur'[t].rc # 0) =>
                 pc'[t] = "oc_return"
          /\ (pc'[t] # pc[t] /\ "oc_return" \in {pc[t], pc'[t]}) =>
                 /\ _connected' = _connected
                 /\ _last_connected' = _last_connected
                 /\ subscribed' = subscribed
                 /\ connectCalls' = connectCalls
                 /\ pc[t] = "oc_return" =>
                        (pc'[t] = Ret(t) /\ cur'[t].exc = None)
      ]_vars

\* an ack with rc # 0 is being handled while a session is established
C11_Wit ==
    \E t \in Threads :
        /\ pc[t] = "oc_return"
        /\ cur[t].rc # 0
        /\ session = "acked"
        /\ Get_connected

----------------------------------------------------------------------------
(* C12 *)

\* s is a prefix of r
IsPrefix(s, r) == Len(s) <= Len(r) /\ SubSeq(r, 1, Len(s)) = s

\* C12: before and after every step the keys of the store are exactly the
\* configured topics, and every topic's sequence before the step is a prefix
\* of its sequence after the step.
C12_Thm ==
    [][/\ DOMAIN readings = Topics
       /\ DOMAIN readings' = Topics
       /\ \A topic \in Topics : IsPrefix(readings[topic], readings'[topic])
      ]_vars

\* a topic holds two readings while the other topic holds one
C12_Wit ==
    \E topic \in Topics :
        /\ Len(readings[topic]) = 2
        /\ \E other \in Topics \ {topic} : Len(readings[other]) = 1

----------------------------------------------------------------------------
(* C13 *)

ConnCallbacks == {"on_connect", "on_disconnect"}

\* thread t takes a step of on_connect, of on_disconnect, of the handling of
\* an exception that left one of them, or of the poll loop's reconnect check
ConnStep(t) ==
    /\ pc'[t] # pc[t]
    /\ \/ cur[t].cb \in ConnCallbacks
       \/ cur'[t].cb \in ConnCallbacks
       \/ pc[t] \in {"check", "check_last"}

\* C13: no step of a disconnect notification, of a connect ack with any
\* result code, or of the poll loop's reconnect check changes the reading
\* store or a windowed series.
C13_Thm ==
    [][\A t \in Threads :
          ConnStep(t) => (readings' = readings /\ default_plot' = default_plot)
      ]_vars

\* active mode: a session was acknowledged and has dropped, no callback was
\* delivered since the drop, and the store holds a reading
C13_Wit ==
    /\ plot
    /\ session = "dropped"
    /\ ~checked
    /\ pc[Main] = "check"
    /\ TotalReadings >= 1

----------------------------------------------------------------------------
(* C14 *)

\* the numbers among the raw values of seq, in order
NumericOf(seq) ==
    LET sel == SelectSeq(seq, LAMBDA d : d # "nan")
    IN [i \in 1..Len(sel) |-> Float(sel[i])]

\* C14: with plotting enabled, no history on disk and a window of at least
\* one entry, once every add_reading call has completed a "nan" reading has
\* raised nothing and every topic's windowed y series holds the last
\* max_plot numeric readings of the store, in order.
C14_Claim ==
    (plot /\ ~exists0 /\ max_plot > 0 /\ Quiescent) =>
        /\ \A e \in errLog : e.data # "nan"
        /\ \A topic \in Topics :
               default_plot[topic].y =
                   LastN(NumericOf(readings[topic]), max_plot)

----------------------------------------------------------------------------
(* C15 *)

\* the data lines of a three-column log that carry the topic and a value
\* float() accepts
RecordsOf(log, topic) ==
    SelectSeq(Tail(log),
              LAMBDA l : Len(l) = 3 /\ l[2] = topic /\ FloatOk(l[3]))

\* the window these records seed: timestamps and numbers, in file order
SeedOf(log, topic) ==
    LET rows == RecordsOf(log, topic)
    IN [x |-> LastN([i \in 1..Len(rows) |-> rows[i][1]], max_plot),
        y |-> LastN([i \in 1..Len(rows) |-> Float(rows[i][3])], max_plot)]

\* C15: when plotting starts with a log in the date,topic,data schema on
\* disk and a window of at least one entry, the loader leaves in every
\* configured topic's window the last max_plot (timestamp, value) records the
\* log holds for that topic, in file order.
C15_Claim ==
    (plot /\ exists0 /\ file0[1] = AsLine(Header) /\ max_plot > 0
          /\ pc[Main] = "start") =>
        \A topic \in Topics : default_plot[topic] = SeedOf(file0, topic)

----------------------------------------------------------------------------
(* C16 *)

\* C16: the startup load never fails: no ValueError raised by a line of the
\* log leaves UserData.__init__, and the load runs to the end of the log.
C16_Claim ==
    /\ cur[Main].exc # "ValueError"
    /\ (plot /\ exists0 /\ pc[Main] \in {"load", "crashed"}) =>
           (pc[Main] = "load" /\ loadIdx <= Len(file0))

----------------------------------------------------------------------------
(* C17 *)

\* C17: the poll loop's reconnect check is one critical section: between
\* its read of connected and its read and reset of hadSession the main
\* thread holds the lock, and a check completed after a drop has issued
\* one reconnect, neither none nor two.
C17_Claim ==
    /\ pc[Main] = "check_last" => lock = Main
    /\ (plot /\ session = "dropped" /\ checked) => ReconnectsSinceDrop = 1

----------------------------------------------------------------------------
(* C18 *)

\* C18: in passive mode the foreground thread exits only after loop_stop()
\* has stopped the delivery loop, whether the operator pressed Enter or
\* interrupted; once it has, no delivery context runs a callback.
C18_Claim ==
    /\ (~plot /\ ~procAlive) => pc[Main] = "done"
    /\ pc[Main] = "done" => \A c \in Ctx : pc[c] = "off"

----------------------------------------------------------------------------
(* C19 *)

\* the positions inside the "with self.lock" block of add_reading
HoldingLock == InAddReading \ {"ar_lock"}

\* C19: a thread holds the lock exactly while it is inside the locked block
\* of add_reading, whichever way earlier calls left it (return, early return
\* for an unconfigured topic, exception from plotting or from the log); no
\* thread about to acquire the lock holds it; when no add_reading call is in
\* progress the lock is free.
C19_Thm ==
    /\ lock \in {Free} \cup Threads
    /\ \A t \in Threads : lock = t <=> pc[t] \in HoldingLock
    /\ Quiescent => lock = Free

\* calls have left add_reading through the early return, through an
\* exception from plotting and through an exception from the log
C19_Wit ==
    /\ Quiescent
    /\ lock = Free
    /\ calls[Unconfigured] > 0
    /\ \E e \in errLog : e.exc = "AttributeError"
    /\ \E e \in errLog : e.exc = "IOError"

----------------------------------------------------------------------------
(* C20 *)

\* the positions of a call between its append and the end of its write
AfterAppend == {"ar_plot", "wr_prep", "wr_open", "wr_write"}

\* C20: while a call is between its append and the end of its write no
\* call appends to the store, so lines reach the log in the order of the
\* appends; the line a call has formatted, and every data line a step adds
\* to the log, carries the topic and the value of the call that writes it.
C20_Thm ==
    [][\A t \in Threads :
          pc[t] \in AfterAppend =>
              /\ readings' = readings
              /\ pc'[t] \in {"wr_open", "wr_write"} =>
                     /\ cur'[t].line[2] = cur[t].topic
                     /\ cur'[t].line[3] = cur[t].data
              /\ file' # file =>
                     /\ pc[t] = "wr_write"
                     /\ Len(file') > Len(file)
                     /\ SubSeq(file', 1, Len(file)) = file
                     /\ \A i \in (Len(file) + 1)..Len(file') :
                            \/ IsHeaderLine(file'[i])
                            \/ /\ file'[i][2] = cur[t].topic
                               /\ file'[i][3] = cur[t].data \o "\n"
      ]_vars

\* two calls overlapped, both have written, and the last two lines of the
\* log carry different topics
C20_Wit ==
    /\ overlap
    /\ Quiescent
    /\ faults = 0
    /\ Len(Written) >= 2
    /\ file[Len(file)][2] # file[Len(file) - 1][2]
    /\ \A topic \in Topics : Len(readings[topic]) = 1

====
